---- MODULE Spec2Model ----
(***************************************************************************)
(* State-machine model of the Goa Cyber Patrol backend: the keyword risk   *)
(* scorer (utils/keyword_checker.py), the ingestion handlers               *)
(* (routes/ingestion.py), the in-memory settings (routes/settings.py) and  *)
(* the hotel legitimacy check (routes/hotels.py).                          *)
(*                                                                         *)
(* Text is a sequence of one-character strings.  Characters outside ASCII  *)
(* are written by code point: "U+20B9" is the rupee sign, and the three    *)
(* characters "U+00E2" "U+201A" "U+0105" are the ones the money pattern of *)
(* keyword_checker.py actually spells at line 52.                          *)
(***************************************************************************)
EXTENDS Integers, Sequences, FiniteSets, TLC

VARIABLES
    message_text,     \* the argument of the check_keywords call
    result,           \* what that call returned or raised
    messages,         \* the records the last ingestion fetched
    flagged_posts,    \* the flagged_posts table, in insertion order
    ingest_response,  \* the last reply of /ingest/telegram
    KEYWORD_SETTINGS, \* settings.py: category -> keywords and risk weight
    settings_response, \* the last reply of a settings endpoint
    official_resorts_csv, \* the file data/official_resorts.csv
    fake_hotels,      \* the fake_hotels table, in insertion order
    hotel_request,    \* the body of the last POST /hotels/check
    hotel_response,   \* the reply to it
    flag_request,     \* the body of the last POST /flag/hotel
    flag_response,    \* the reply to it
    inflight,         \* the /hotels/check requests being served, by worker
    source_units,     \* what each channel or URL of the last ingestion gave
    PLATFORM_SETTINGS, \* settings.py: platform -> monitoring settings
    settings_request, \* the last request to a settings endpoint
    backups,          \* the files data/official_resorts_backup_*.csv
    upload_request,   \* the file of the last POST /hotels/upload-resorts
    upload_response,  \* the reply to it
    upload_inflight   \* the upload being written, if any

scorerVars == <<message_text, result>>

ingestVars == <<messages, flagged_posts, ingest_response, source_units>>

settingsVars == <<KEYWORD_SETTINGS, settings_response, PLATFORM_SETTINGS,
                  settings_request>>

uploadVars == <<backups, upload_request, upload_response, upload_inflight>>

hotelVars == <<official_resorts_csv, fake_hotels, hotel_request, hotel_response,
               flag_request, flag_response, inflight, uploadVars>>

vars == <<message_text, result, messages, flagged_posts, ingest_response,
          KEYWORD_SETTINGS, settings_response,
          official_resorts_csv, fake_hotels, hotel_request, hotel_response,
          flag_request, flag_response, inflight,
          source_units, PLATFORM_SETTINGS, settings_request,
          backups, upload_request, upload_response, upload_inflight>>

(***************************************************************************)
(* Bounds of the model.                                                    *)
(***************************************************************************)
MaxFrags == 3

MaxBatch == 2

MaxRows == 3

MaxHotels == 2

MaxChannels == 2

(***************************************************************************)
(* Characters and case folding (str.lower, re.IGNORECASE), ASCII letters.  *)
(***************************************************************************)
UpperToLower ==
    ("A" :> "a") @@ ("B" :> "b") @@ ("C" :> "c") @@ ("D" :> "d") @@ ("E" :> "e") @@ ("F" :> "f") @@
    ("G" :> "g") @@ ("H" :> "h") @@ ("I" :> "i") @@ ("J" :> "j") @@ ("K" :> "k") @@ ("L" :> "l") @@
    ("M" :> "m") @@ ("N" :> "n") @@ ("O" :> "o") @@ ("P" :> "p") @@ ("Q" :> "q") @@ ("R" :> "r") @@
    ("S" :> "s") @@ ("T" :> "t") @@ ("U" :> "u") @@ ("V" :> "v") @@ ("W" :> "w") @@ ("X" :> "x") @@
    ("Y" :> "y") @@ ("Z" :> "z")

Lower(c) == IF c \in DOMAIN UpperToLower THEN UpperToLower[c] ELSE c

LowerStr(s) == [i \in 1..Len(s) |-> Lower(s[i])]

Digits == {"0","1","2","3","4","5","6","7","8","9"}

Whitespace == {" "}

\* Python's `needle in haystack` on two strings.
Contains(haystack, needle) ==
    \E i \in 1..(Len(haystack) - Len(needle) + 1) :
        SubSeq(haystack, i, i + Len(needle) - 1) = needle

(***************************************************************************)
(* utils/keyword_checker.py                                                *)
(***************************************************************************)
K_loan == <<"l","o","a","n">>
K_casino == <<"c","a","s","i","n","o">>
K_escort == <<"e","s","c","o","r","t">>
K_resort == <<"r","e","s","o","r","t">>
K_work_from_home == <<"w","o","r","k"," ","f","r","o","m"," ","h","o","m","e">>
K_earn_daily == <<"e","a","r","n"," ","d","a","i","l","y">>
K_gambling == <<"g","a","m","b","l","i","n","g">>
K_betting == <<"b","e","t","t","i","n","g">>
K_prostitute == <<"p","r","o","s","t","i","t","u","t","e">>
K_call_girl == <<"c","a","l","l"," ","g","i","r","l">>
K_massage == <<"m","a","s","s","a","g","e">>
K_dating == <<"d","a","t","i","n","g">>
K_fake == <<"f","a","k","e">>
K_fraud == <<"f","r","a","u","d">>
K_scam == <<"s","c","a","m">>
K_money_back_guarantee == <<"m","o","n","e","y"," ","b","a","c","k"," ","g","u","a","r","a","n","t","e","e">>
K_urgent == <<"u","r","g","e","n","t">>
K_limited_time == <<"l","i","m","i","t","e","d"," ","t","i","m","e">>
K_easy_money == <<"e","a","s","y"," ","m","o","n","e","y">>
K_get_rich_quick == <<"g","e","t"," ","r","i","c","h"," ","q","u","i","c","k">>
K_no_investment == <<"n","o"," ","i","n","v","e","s","t","m","e","n","t">>
K_lottery == <<"l","o","t","t","e","r","y">>
K_winner == <<"w","i","n","n","e","r">>
K_congratulations == <<"c","o","n","g","r","a","t","u","l","a","t","i","o","n","s">>
K_prize == <<"p","r","i","z","e">>
K_free_money == <<"f","r","e","e"," ","m","o","n","e","y">>
K_instant_cash == <<"i","n","s","t","a","n","t"," ","c","a","s","h">>
K_part_time_job == <<"p","a","r","t"," ","t","i","m","e"," ","j","o","b">>

\* Keywords that only routes/settings.py spells.
W_jackpot == <<"j","a","c","k","p","o","t">>
W_dating_service == <<"d","a","t","i","n","g"," ","s","e","r","v","i","c","e">>
W_hotel == <<"h","o","t","e","l">>
W_booking == <<"b","o","o","k","i","n","g">>
W_accommodation == <<"a","c","c","o","m","m","o","d","a","t","i","o","n">>
W_otp == <<"o","t","p">>

SCAM_KEYWORDS ==
    << K_loan, K_casino, K_escort, K_resort,
       K_work_from_home, K_earn_daily, K_gambling, K_betting,
       K_prostitute, K_call_girl, K_massage, K_dating,
       K_fake, K_fraud, K_scam, K_money_back_guarantee,
       K_urgent, K_limited_time, K_easy_money, K_get_rich_quick,
       K_no_investment, K_lottery, K_winner, K_congratulations,
       K_prize, K_free_money, K_instant_cash, K_part_time_job >>

TAKEDOWN_RECOMMENDATIONS ==
    [scam |-> "Report to Cyber Cell",
     fake_hotel |-> "Report to Tourism Dept",
     prostitution |-> "Escalate for legal action",
     gambling |-> "Escalate for legal action",
     general_suspicious |-> "Monitor and investigate further"]

\* Python's None where a string is expected: a one-element tuple holding
\* a token that is no character, so it differs from every text.
None == <<"None">>

\* The shapes of a call's outcome.

Pending == [outcome |-> "pending"]

Raised(exc) == [outcome |-> "raised", exception |-> exc]

REASON_PREFIX == 
    <<"S","u","s","p","i","c","i","o","u","s"," ","k","e","y","w","o","r","d","s"," ","d","e","t","e","c","t","e","d",":"," ">>

REASON_NONE == 
    <<"N","o"," ","s","u","s","p","i","c","i","o","u","s"," ","c","o","n","t","e","n","t"," ","d","e","t","e","c","t","e","d">>

SEPARATOR == <<",", " ">>

\* Mutant of MatchLoop: a matched keyword is put in front of the list.
RECURSIVE MatchLoop_Prepend(_, _, _)
MatchLoop_Prepend(message_lower, i, matched_keywords) ==
    IF i > Len(SCAM_KEYWORDS) THEN matched_keywords
    ELSE MatchLoop_Prepend(message_lower, i + 1,
                   IF Contains(message_lower, LowerStr(SCAM_KEYWORDS[i]))
                   THEN <<SCAM_KEYWORDS[i]>> \o matched_keywords
                   ELSE matched_keywords)

\* lines 30-35: the loop over SCAM_KEYWORDS, appending every keyword whose
\* lower-cased form occurs in the lower-cased message.
RECURSIVE MatchLoop(_, _, _)
MatchLoop(message_lower, i, matched_keywords) ==
    IF i > Len(SCAM_KEYWORDS) THEN matched_keywords
    ELSE MatchLoop(message_lower, i + 1,
                   IF Contains(message_lower, LowerStr(SCAM_KEYWORDS[i]))
                   THEN Append(matched_keywords, SCAM_KEYWORDS[i])
                   ELSE matched_keywords)

MatchedKeywords(text) == MatchLoop(LowerStr(text), 1, <<>>)

\* Mutant of BaseScore: the second threshold is off by one.
BaseScore_OffByOne(keyword_count) ==
    IF keyword_count = 1 THEN 40
    ELSE IF keyword_count = 3 THEN 70
    ELSE 85

\* lines 44-49
BaseScore(keyword_count) ==
    IF keyword_count = 1 THEN 40
    ELSE IF keyword_count = 2 THEN 70
    ELSE 85

\* A digit follows position i after any run of whitespace (\s*\d+).
DigitAfterSpaces(text, i) ==
    \E j \in i..Len(text) :
        /\ text[j] \in Digits
        /\ \A m \in i..(j - 1) : text[m] \in Whitespace

\* The literal lit occurs at position i, letters compared without case.
LiteralAt(text, i, lit) ==
    /\ i >= 1
    /\ i + Len(lit) - 1 <= Len(text)
    /\ LowerStr(SubSeq(text, i, i + Len(lit) - 1)) = LowerStr(lit)

\* line 52-53: re.search(money_pattern, message_text, re.IGNORECASE) with
\* the four alternatives of the pattern as the file spells them.
MoneyPatternFound(text) ==
    \E i \in 1..Len(text) :
        \/ /\ LiteralAt(text, i, <<"U+00E2", "U+201A", "U+0105">>)
           /\ DigitAfterSpaces(text, i + 3)
        \/ /\ LiteralAt(text, i, <<"I", "N", "R">>)
           /\ DigitAfterSpaces(text, i + 3)
        \/ /\ text[i] \in Digits
           /\ \E j \in (i + 1)..Len(text) :
                 /\ \A m \in (i + 1)..(j - 1) : text[m] \in Whitespace
                 /\ LiteralAt(text, j, <<"r", "u", "p", "e", "e">>)
        \/ /\ LiteralAt(text, i, <<"R", "s">>)
           /\ \/ DigitAfterSpaces(text, i + 2)
              \/ /\ LiteralAt(text, i + 2, <<".">>)
                 /\ DigitAfterSpaces(text, i + 3)

Min(a, b) == IF a <= b THEN a ELSE b

\* lines 41-54
RiskScore(text, matched_keywords) ==
    IF MoneyPatternFound(text)
    THEN Min(90, BaseScore(Len(matched_keywords)) + 20)
    ELSE BaseScore(Len(matched_keywords))

InSeq(x, s) == \E i \in 1..Len(s) : s[i] = x

\* Mutant of Categorize: the gambling bucket is tested before prostitution.
Categorize_GamblingFirst(matched_keywords) ==
    IF \E word \in {K_casino, K_gambling, K_betting, K_lottery} :
           InSeq(word, matched_keywords)
    THEN "gambling"
    ELSE IF \E word \in {K_escort, K_prostitute, K_call_girl, K_massage, K_dating} :
           InSeq(word, matched_keywords)
    THEN "prostitution"
    ELSE IF \E word \in {K_resort, K_fake} : InSeq(word, matched_keywords)
    THEN "fake_hotel"
    ELSE "scam"

\* lines 60-67
Categorize(matched_keywords) ==
    IF \E word \in {K_escort, K_prostitute, K_call_girl, K_massage, K_dating} :
           InSeq(word, matched_keywords)
    THEN "prostitution"
    ELSE IF \E word \in {K_casino, K_gambling, K_betting, K_lottery} :
           InSeq(word, matched_keywords)
    THEN "gambling"
    ELSE IF \E word \in {K_resort, K_fake} : InSeq(word, matched_keywords)
    THEN "fake_hotel"
    ELSE "scam"

\* Mutant of TakedownFor: a subscript lookup, the default action dropped to
\* the scam one.
TakedownFor_ScamDefault(category) ==
    IF category \in {"prostitution", "gambling"}
    THEN TAKEDOWN_RECOMMENDATIONS[category]
    ELSE TAKEDOWN_RECOMMENDATIONS["scam"]

\* line 69: TAKEDOWN_RECOMMENDATIONS.get(category, <general_suspicious>)
TakedownFor(category) ==
    IF category \in DOMAIN TAKEDOWN_RECOMMENDATIONS
    THEN TAKEDOWN_RECOMMENDATIONS[category]
    ELSE TAKEDOWN_RECOMMENDATIONS["general_suspicious"]

\* ', '.join(matched_keywords)
RECURSIVE Join(_)
Join(strs) ==
    IF Len(strs) = 0 THEN <<>>
    ELSE IF Len(strs) = 1 THEN strs[1]
    ELSE strs[1] \o SEPARATOR \o Join(Tail(strs))

\* line 57
FlaggedReason(matched_keywords) == REASON_PREFIX \o Join(matched_keywords)

\* lines 22-71.  The returned tuple is (risk_score, flagged_reason,
\* takedown_recommendation); matched_keywords and category are the locals
\* of the call at the return, "unset" where the call never assigns them.
check_keywords(text) ==
    IF text = None
    THEN Raised("AttributeError")
    ELSE LET matched_keywords == MatchedKeywords(text) IN
         IF Len(matched_keywords) = 0
         THEN [outcome |-> "returned",
               risk_score |-> 0,
               flagged_reason |-> REASON_NONE,
               takedown_recommendation |-> "",
               matched_keywords |-> matched_keywords,
               category |-> "unset"]
         ELSE LET category == Categorize(matched_keywords) IN
              [outcome |-> "returned",
               risk_score |-> RiskScore(text, matched_keywords),
               flagged_reason |-> FlaggedReason(matched_keywords),
               takedown_recommendation |-> TakedownFor(category),
               matched_keywords |-> matched_keywords,
               category |-> category]

(***************************************************************************)
(* Inputs of the scorer: every concatenation of at most MaxFrags fragments.*)
(***************************************************************************)
Fragments ==
    { K_loan,
      <<"C","a","s","i","n","o">>,
      <<"E","S","C","O","R","T">>,
      K_resort,
      <<"l","o","t","t","e","r","y"," ","w","i","n","n","e","r">>,
      <<" ">>,
      <<"U+20B9", "5">>,
      <<"U+00E2", "U+201A", "U+0105", "5">>,
      <<"R", "s", ".">>,
      <<"7">>,
      <<"r", "u", "p", "e", "e", "s">> }

RECURSIVE Flatten(_)
Flatten(frags) ==
    IF Len(frags) = 0 THEN <<>> ELSE frags[1] \o Flatten(Tail(frags))

Texts ==
    UNION { { Flatten(frags) : frags \in [1..n -> Fragments] } : n \in 0..MaxFrags }

(***************************************************************************)
(* The scorer as a state machine: the argument is drawn at the start and   *)
(* one step applies check_keywords to it.                                  *)
(***************************************************************************)
NoResponse == [status |-> "none"]

HttpError(code) == [status |-> "error", status_code |-> code]

IngestIdle ==
    /\ messages = <<>>
    /\ flagged_posts = <<>>
    /\ ingest_response = NoResponse
    /\ source_units = <<>>

\* settings.py lines 42-47: the settings as the module is loaded.
KEYWORD_SETTINGS_DEFAULT ==
    [scam |-> [keywords |-> <<K_loan, K_fraud, K_scam, K_get_rich_quick, K_easy_money>>,
               risk_weight |-> 50],
     gambling |-> [keywords |-> <<K_casino, K_betting, K_lottery, K_gambling, W_jackpot>>,
                   risk_weight |-> 60],
     prostitution |-> [keywords |-> <<K_escort, K_call_girl, K_massage, W_dating_service>>,
                       risk_weight |-> 70],
     fake_hotel |-> [keywords |-> <<K_resort, W_hotel, W_booking, W_accommodation>>,
                     risk_weight |-> 40]]

W_earn_money == <<"e","a","r","n"," ","m","o","n","e","y">>
W_fake_hotel == <<"f","a","k","e"," ","h","o","t","e","l">>

PlatformRecord(enabled, monitoring_keywords, risk_threshold, auto_flag) ==
    [enabled |-> enabled, monitoring_keywords |-> monitoring_keywords,
     risk_threshold |-> risk_threshold, auto_flag |-> auto_flag]

\* settings.py lines 34-40: the platform settings as the module is loaded.
PLATFORM_SETTINGS_DEFAULT ==
    [telegram |-> PlatformRecord(TRUE, <<K_scam, K_fraud, K_casino>>, 70, TRUE),
     instagram |-> PlatformRecord(TRUE, <<W_earn_money, K_work_from_home>>, 70, TRUE),
     website |-> PlatformRecord(TRUE, <<W_fake_hotel, K_resort>>, 60, TRUE),
     facebook |-> PlatformRecord(FALSE, <<>>, 70, FALSE),
     youtube |-> PlatformRecord(FALSE, <<>>, 70, FALSE)]

SettingsIdle ==
    /\ KEYWORD_SETTINGS = KEYWORD_SETTINGS_DEFAULT
    /\ settings_response = NoResponse
    /\ PLATFORM_SETTINGS = PLATFORM_SETTINGS_DEFAULT
    /\ settings_request = NoResponse

\* The workers that serve /hotels/check side by side.
Workers == {1, 2}

\* No /flag/hotel request was made and no worker is serving a check.
VerifyIdle ==
    /\ flag_request = NoResponse
    /\ flag_response = NoResponse
    /\ inflight = [w \in Workers |-> [pc |-> "idle"]]

\* No backup file exists and nothing was uploaded yet.
UploadIdle ==
    /\ backups = {}
    /\ upload_request = NoResponse
    /\ upload_response = NoResponse
    /\ upload_inflight = [pc |-> "idle"]

\* The registry file is missing and nothing was checked yet.
HotelsIdle ==
    /\ official_resorts_csv = [exists |-> FALSE]
    /\ fake_hotels = <<>>
    /\ hotel_request = NoResponse
    /\ hotel_response = NoResponse
    /\ VerifyIdle
    /\ UploadIdle

Init ==
    /\ message_text \in Texts \cup {None}
    /\ result = Pending
    /\ IngestIdle
    /\ SettingsIdle
    /\ HotelsIdle

CheckKeywords ==
    /\ result = Pending
    /\ result' = check_keywords(message_text)
    /\ UNCHANGED <<message_text, ingestVars, settingsVars, hotelVars>>

Next == CheckKeywords

Spec == Init /\ [][Next]_vars

(***************************************************************************)
(* routes/ingestion.py.  The session and the mapped classes are the        *)
(* storage collaborator: a handler is modelled against the calls it makes  *)
(* (add, commit), a row being the keyword arguments it is built from.      *)
(***************************************************************************)

\* Mutant of ShouldSave: score-0 records are saved as well.
ShouldSave_NonNegative(risk_score) == risk_score >= 0

\* line 45: only flagged posts are saved
ShouldSave(risk_score) == risk_score > 0

Take(s, n) == SubSeq(s, 1, Min(n, Len(s)))

\* The texts of the records the scraper hands over in this model.
IngestTexts ==
    { <<"h", "i">>,
      <<"R", "s", ".", "5">>,
      K_loan }

\* check_keywords tabulated over those texts, so that each is scored once.
ScoreOf == [text \in IngestTexts |-> check_keywords(text)]

\* Mutant of IngestLoop: every fetched record is counted as flagged.
RECURSIVE IngestLoop_CountAll(_, _, _)
IngestLoop_CountAll(msgs, i, acc) ==
    IF i > Len(msgs) THEN acc
    ELSE LET message == msgs[i]
             scored == ScoreOf[message.message_text]
         IN  IngestLoop_CountAll(msgs, i + 1,
                [added |-> IF ShouldSave(scored.risk_score)
                           THEN Append(acc.added,
                                  [platform |-> message.platform,
                                   message_text |-> message.message_text,
                                   flagged_reason |-> scored.flagged_reason,
                                   risk_score |-> scored.risk_score,
                                   author_id |-> message.author_id,
                                   takedown_recommendation |->
                                       scored.takedown_recommendation])
                           ELSE acc.added,
                 flagged_count |-> acc.flagged_count + 1,
                 sample |-> acc.sample])

\* lines 38-64: the loop over the fetched messages; acc holds the objects
\* added to the session, the flagged count and the sample entries.
RECURSIVE IngestLoop(_, _, _)
IngestLoop(msgs, i, acc) ==
    IF i > Len(msgs) THEN acc
    ELSE LET message == msgs[i]
             scored == ScoreOf[message.message_text]
         IN  IF ShouldSave(scored.risk_score)
             THEN IngestLoop(msgs, i + 1,
                    [added |-> Append(acc.added,
                                  [platform |-> message.platform,
                                   message_text |-> message.message_text,
                                   flagged_reason |-> scored.flagged_reason,
                                   risk_score |-> scored.risk_score,
                                   author_id |-> message.author_id,
                                   takedown_recommendation |->
                                       scored.takedown_recommendation]),
                     flagged_count |-> acc.flagged_count + 1,
                     sample |-> Append(acc.sample,
                                  [message_text |-> Take(message.message_text, 100)
                                                    \o <<".", ".", ".">>,
                                   risk_score |-> scored.risk_score,
                                   flagged_reason |-> scored.flagged_reason,
                                   channel |-> message.channel])])
             ELSE IngestLoop(msgs, i + 1, acc)

\* Mutant of Commit: the added rows reach the table although the commit
\* fails.
Commit_Eager(table, added, commit_ok) == table \o added

\* Mutant of Commit: a row equal to one already in the table is not written
\* again.
Commit_Dedup(table, added, commit_ok) ==
    IF commit_ok
    THEN table \o SelectSeq(added, LAMBDA row : ~InSeq(row, table))
    ELSE table

\* line 66: await db.commit() writes the objects added to the session, all
\* of them or, when it raises, none.
Commit(table, added, commit_ok) ==
    IF commit_ok THEN table \o added ELSE table

\* lines 24-80: POST /ingest/telegram with the messages the scraper returned;
\* commit_ok tells whether the commit of line 66 succeeds.
ingest_telegram_data(fetched, commit_ok) ==
    LET done == IngestLoop(fetched, 1,
                           [added |-> <<>>, flagged_count |-> 0, sample |-> <<>>])
    IN  /\ Len(flagged_posts) + Len(fetched) <= MaxRows
        /\ messages' = fetched
        /\ flagged_posts' = Commit(flagged_posts, done.added, commit_ok)
        /\ ingest_response' =
               IF commit_ok
               THEN [status |-> "success",
                     total_messages |-> Len(fetched),
                     flagged_posts |-> done.flagged_count,
                     sample_flagged |-> Take(done.sample, 5)]
               ELSE HttpError(500)
        /\ UNCHANGED <<scorerVars, settingsVars, hotelVars>>

\* lines 157-181: the loop over the scraped websites; only the records the
\* scraper marked success are scored.
RECURSIVE WebsiteLoop(_, _, _)
WebsiteLoop(website_content, i, acc) ==
    IF i > Len(website_content) THEN acc
    ELSE LET content == website_content[i] IN
         IF content.status # "success"
         THEN WebsiteLoop(website_content, i + 1, acc)
         ELSE LET scored == ScoreOf[content.message_text] IN
              IF ShouldSave(scored.risk_score)
              THEN WebsiteLoop(website_content, i + 1,
                     [added |-> Append(acc.added,
                                   [platform |-> "Website",
                                    message_text |-> content.message_text,
                                    flagged_reason |-> scored.flagged_reason,
                                    risk_score |-> scored.risk_score,
                                    author_id |-> content.domain,
                                    takedown_recommendation |->
                                        scored.takedown_recommendation]),
                      flagged_count |-> acc.flagged_count + 1,
                      sample |-> Append(acc.sample,
                                   [url |-> content.url,
                                    domain |-> content.domain,
                                    risk_score |-> scored.risk_score,
                                    flagged_reason |-> scored.flagged_reason])])
              ELSE WebsiteLoop(website_content, i + 1, acc)

\* lines 140-197: POST /ingest/website with the records the scraper
\* returned; commit_ok tells whether the commit of line 183 succeeds.
ingest_website_data(website_content, commit_ok) ==
    LET done == WebsiteLoop(website_content, 1,
                            [added |-> <<>>, flagged_count |-> 0, sample |-> <<>>])
    IN  /\ Len(flagged_posts) + Len(website_content) <= MaxRows
        /\ messages' = website_content
        /\ flagged_posts' = Commit(flagged_posts, done.added, commit_ok)
        /\ ingest_response' =
               IF commit_ok
               THEN [status |-> "success",
                     total_websites |-> Len(website_content),
                     flagged_posts |-> done.flagged_count,
                     sample_flagged |-> Take(done.sample, 5)]
               ELSE HttpError(500)
        /\ UNCHANGED <<scorerVars, settingsVars, hotelVars>>

(***************************************************************************)
(* Inputs of the ingestion: what the Telegram scraper hands over, records  *)
(* with non-empty text (telegram_client.py line 50).                       *)
(***************************************************************************)
TelegramMessage(text) ==
    [platform |-> "Telegram",
     message_text |-> text,
     author_id |-> "Unknown",
     channel |-> "goajobs"]

Batches ==
    UNION { [1..n -> { TelegramMessage(t) : t \in IngestTexts }] : n \in 0..MaxBatch }

\* What the website scraper hands over (website_scraper.py lines 52-98): a
\* page it read, or the record of a failed request.
U_x_in == <<"h","t","t","p","s",":","/","/","x",".","i","n","/">>

WebsiteSuccess(text) ==
    [platform |-> "Website",
     url |-> U_x_in,
     message_text |-> text,
     author_id |-> "website_scraper",
     domain |-> <<"x", ".", "i", "n">>,
     status |-> "success"]

WebsiteError ==
    [platform |-> "Website",
     url |-> U_x_in,
     message_text |-> <<"F","a","i","l","e","d"," ","t","o"," ","a","c","c","e","s","s",
                        " ","w","e","b","s","i","t","e"," ","(","S","t","a","t","u","s",
                        ":"," ","4","0","4",")">>,
     author_id |-> "website_scraper",
     status |-> "error"]

WebsiteBatches ==
    UNION { [1..n -> { WebsiteSuccess(<<"h", "i">>), WebsiteSuccess(K_loan),
                       WebsiteError }] : n \in 0..MaxBatch }

InitIngest ==
    /\ message_text \in IngestTexts
    /\ result = Pending
    /\ IngestIdle
    /\ SettingsIdle
    /\ HotelsIdle

\* What one source unit (a channel, a URL) gave: the records it put into
\* the fetched list, and whether fetching it failed.
UnitResult(got, failed) == [got |-> got, failed |-> failed]

\* website_scraper.py lines 29-45: every URL gives one record, a page or
\* the record of its failure.
UrlResults(website_content) ==
    [i \in 1..Len(website_content) |->
        UnitResult(<<website_content[i]>>, website_content[i].status = "error")]

\* The whole fetch seen as one channel that did not fail.
IngestTelegram ==
    \E fetched \in Batches, commit_ok \in BOOLEAN :
        /\ ingest_telegram_data(fetched, commit_ok)
        /\ source_units' = <<UnitResult(fetched, FALSE)>>

IngestWebsite ==
    \E website_content \in WebsiteBatches, commit_ok \in BOOLEAN :
        /\ ingest_website_data(website_content, commit_ok)
        /\ source_units' = UrlResults(website_content)

NextIngest ==
    \/ CheckKeywords
    \/ IngestTelegram
    \/ IngestWebsite

SpecIngest == InitIngest /\ [][NextIngest]_vars

(***************************************************************************)
(* The ingestion with its scrapers, channel by channel and URL by URL.     *)
(***************************************************************************)
\* telegram_client.py lines 44-63: the messages with text are appended to
\* the list as the channel is iterated; an exception in get_entity or in
\* the iteration is printed and the loop goes on with the next channel, the
\* messages appended so far staying in the list.
RECURSIVE get_messages_from_channels(_, _)
get_messages_from_channels(channel_results, i) ==
    IF i > Len(channel_results) THEN <<>>
    ELSE channel_results[i].got \o get_messages_from_channels(channel_results, i + 1)

\* What a channel may give before it is exhausted or fails.
ChannelYields ==
    { <<>>, <<TelegramMessage(<<"h", "i">>)>>, <<TelegramMessage(K_loan)>> }

ChannelResults ==
    UNION { [1..n -> { UnitResult(got, failed) :
                          got \in ChannelYields, failed \in BOOLEAN }] :
            n \in 1..MaxChannels }

IngestChannels ==
    \E channel_results \in ChannelResults, commit_ok \in BOOLEAN :
        /\ ingest_telegram_data(get_messages_from_channels(channel_results, 1),
                                commit_ok)
        /\ source_units' = channel_results

NextFetch ==
    \/ IngestChannels
    \/ IngestWebsite

SpecFetch == InitIngest /\ [][NextFetch]_vars

(***************************************************************************)
(* routes/settings.py: the keyword settings held in memory.                *)
(***************************************************************************)
HttpErrorDetail(code, detail) ==
    [status |-> "error", status_code |-> code, detail |-> detail]

\* dict[key] = value
DictSet(dict, key, value) ==
    [k \in DOMAIN dict \cup {key} |-> IF k = key THEN value ELSE dict[k]]

\* Mutant of OutOfRange: negative values pass.
OutOfRange_AboveOnly(value) == value > 100

\* lines 79, 142, 178: value < 0 or value > 100
OutOfRange(value) == value < 0 \/ value > 100

SettingsRequest(operation, body) == [operation |-> operation, body |-> body]

\* lines 136-167: POST /settings/keywords/update
update_keyword_settings(settings) ==
    /\ settings_request' = SettingsRequest("update", settings)
    /\ UNCHANGED PLATFORM_SETTINGS
    /\ IF OutOfRange(settings.risk_weight)
       THEN /\ settings_response' =
                   HttpErrorDetail(400, "Risk weight must be between 0 and 100")
            /\ UNCHANGED KEYWORD_SETTINGS
       ELSE IF Len(settings.keywords) = 0
       THEN /\ settings_response' =
                   HttpErrorDetail(400, "Keywords list cannot be empty")
            /\ UNCHANGED KEYWORD_SETTINGS
       ELSE /\ KEYWORD_SETTINGS' =
                   DictSet(KEYWORD_SETTINGS, settings.category,
                           [keywords |-> settings.keywords,
                            risk_weight |-> settings.risk_weight])
            /\ settings_response' =
                   [status |-> "success",
                    operation |-> "update",
                    category |-> settings.category,
                    settings |-> [keywords |-> settings.keywords,
                                  risk_weight |-> settings.risk_weight]]
    /\ UNCHANGED <<scorerVars, ingestVars, hotelVars>>

\* lines 169-203: POST /settings/keywords/add_category
add_keyword_category(settings) ==
    /\ settings_request' = SettingsRequest("add_category", settings)
    /\ UNCHANGED PLATFORM_SETTINGS
    /\ IF settings.category \in DOMAIN KEYWORD_SETTINGS
       THEN /\ settings_response' = HttpErrorDetail(400, "Category already exists")
            /\ UNCHANGED KEYWORD_SETTINGS
       ELSE IF OutOfRange(settings.risk_weight)
       THEN /\ settings_response' =
                   HttpErrorDetail(400, "Risk weight must be between 0 and 100")
            /\ UNCHANGED KEYWORD_SETTINGS
       ELSE IF Len(settings.keywords) = 0
       THEN /\ settings_response' =
                   HttpErrorDetail(400, "Keywords list cannot be empty")
            /\ UNCHANGED KEYWORD_SETTINGS
       ELSE /\ KEYWORD_SETTINGS' =
                   DictSet(KEYWORD_SETTINGS, settings.category,
                           [keywords |-> settings.keywords,
                            risk_weight |-> settings.risk_weight])
            /\ settings_response' =
                   [status |-> "success",
                    operation |-> "add_category",
                    category |-> settings.category,
                    settings |-> [keywords |-> settings.keywords,
                                  risk_weight |-> settings.risk_weight]]
    /\ UNCHANGED <<scorerVars, ingestVars, hotelVars>>

\* lines 70-103: POST /settings/platforms/update
update_platform_settings(settings) ==
    /\ settings_request' = SettingsRequest("update_platform", settings)
    /\ UNCHANGED KEYWORD_SETTINGS
    /\ IF settings.platform \notin DOMAIN PLATFORM_SETTINGS
       THEN /\ settings_response' = HttpErrorDetail(404, "Platform not found")
            /\ UNCHANGED PLATFORM_SETTINGS
       ELSE IF OutOfRange(settings.risk_threshold)
       THEN /\ settings_response' =
                   HttpErrorDetail(400, "Risk threshold must be between 0 and 100")
            /\ UNCHANGED PLATFORM_SETTINGS
       ELSE /\ PLATFORM_SETTINGS' =
                   DictSet(PLATFORM_SETTINGS, settings.platform,
                           PlatformRecord(settings.enabled, settings.monitoring_keywords,
                                          settings.risk_threshold, settings.auto_flag))
            /\ settings_response' =
                   [status |-> "success",
                    operation |-> "update_platform",
                    platform |-> settings.platform,
                    updated_settings |->
                        PlatformRecord(settings.enabled, settings.monitoring_keywords,
                                       settings.risk_threshold, settings.auto_flag)]
    /\ UNCHANGED <<scorerVars, ingestVars, hotelVars>>

\* Mutant of core_categories: no category is protected.
core_categories_None == {}

\* line 215
core_categories == {"scam", "gambling", "prostitution", "fake_hotel"}

\* dict.pop(key)
DictPop(dict, key) == [k \in DOMAIN dict \ {key} |-> dict[k]]

\* lines 205-237: DELETE /settings/keywords/category/{category}
delete_keyword_category(category) ==
    /\ settings_request' = SettingsRequest("delete_category", category)
    /\ UNCHANGED PLATFORM_SETTINGS
    /\ IF category \notin DOMAIN KEYWORD_SETTINGS
       THEN /\ settings_response' = HttpErrorDetail(404, "Category not found")
            /\ UNCHANGED KEYWORD_SETTINGS
       ELSE IF category \in core_categories
       THEN /\ settings_response' =
                   HttpErrorDetail(400, "Core category cannot be deleted")
            /\ UNCHANGED KEYWORD_SETTINGS
       ELSE /\ KEYWORD_SETTINGS' = DictPop(KEYWORD_SETTINGS, category)
            /\ settings_response' =
                   [status |-> "success",
                    operation |-> "delete_category",
                    deleted_category |-> category,
                    deleted_settings |-> KEYWORD_SETTINGS[category]]
    /\ UNCHANGED <<scorerVars, ingestVars, hotelVars>>

\* str.endswith
EndsWith(text, suffix) ==
    /\ Len(text) >= Len(suffix)
    /\ SubSeq(text, Len(text) - Len(suffix) + 1, Len(text)) = suffix

\* dict.update(other)
DictUpdate(dict, other) ==
    [k \in DOMAIN dict \cup DOMAIN other |->
        IF k \in DOMAIN other THEN other[k] ELSE dict[k]]

\* len(settings_data.get(key, {}))
ImportedCount(settings_data, key) ==
    IF key \in DOMAIN settings_data
    THEN Cardinality(DOMAIN settings_data[key])
    ELSE 0

\* lines 305-341: POST /settings/import.  The file is its name and what
\* json.loads makes of its content: a decoding error, or the parsed object.
import_settings(file) ==
    /\ settings_request' = SettingsRequest("import", file)
    /\ IF ~EndsWith(file.filename, <<".", "j", "s", "o", "n">>)
       THEN /\ settings_response' = HttpErrorDetail(400, "File must be a JSON file")
            /\ UNCHANGED <<PLATFORM_SETTINGS, KEYWORD_SETTINGS>>
       ELSE IF ~file.content.parses
       THEN /\ settings_response' = HttpErrorDetail(400, "Invalid JSON format")
            /\ UNCHANGED <<PLATFORM_SETTINGS, KEYWORD_SETTINGS>>
       ELSE LET settings_data == file.content.data IN
            /\ PLATFORM_SETTINGS' =
                   IF "platforms" \in DOMAIN settings_data
                   THEN DictUpdate(PLATFORM_SETTINGS, settings_data.platforms)
                   ELSE PLATFORM_SETTINGS
            /\ KEYWORD_SETTINGS' =
                   IF "keywords" \in DOMAIN settings_data
                   THEN DictUpdate(KEYWORD_SETTINGS, settings_data.keywords)
                   ELSE KEYWORD_SETTINGS
            /\ settings_response' =
                   [status |-> "success",
                    operation |-> "import",
                    imported_platforms |-> ImportedCount(settings_data, "platforms"),
                    imported_keyword_categories |->
                        ImportedCount(settings_data, "keywords")]
    /\ UNCHANGED <<scorerVars, ingestVars, hotelVars>>

(***************************************************************************)
(* Inputs of the settings endpoints (the KeywordSettings body, lines       *)
(* 22-25) and the texts scored next to them.                               *)
(***************************************************************************)
KeywordSettingsBodies ==
    [keywords : {<<>>, <<W_otp>>, <<K_loan, W_otp>>},
     category : {"scam", "phishing"},
     risk_weight : {-1, 0, 100, 101}]

SettingsTexts ==
    { W_otp, K_loan \o <<" ">> \o W_otp, <<"h", "i">> }

InitSettings ==
    /\ message_text \in SettingsTexts
    /\ result = Pending
    /\ IngestIdle
    /\ SettingsIdle
    /\ HotelsIdle

\* The PlatformSettings bodies (lines 15-20), the categories asked to be
\* deleted and the files imported in this model.
PlatformSettingsBodies ==
    [platform : {"telegram", "tiktok"},
     enabled : {FALSE},
     monitoring_keywords : {<<>>},
     risk_threshold : {-1, 60, 101},
     auto_flag : {TRUE}]

DeletedCategories == {"scam", "phishing", "crypto"}

JsonError == [parses |-> FALSE]

Json(data) == [parses |-> TRUE, data |-> data]

ImportFiles ==
    { [filename |-> <<"s", ".", "t", "x", "t">>, content |-> JsonError],
      [filename |-> <<"s", ".", "j", "s", "o", "n">>, content |-> JsonError],
      [filename |-> <<"s", ".", "j", "s", "o", "n">>,
       content |-> Json([keywords |->
                            [scam |-> [keywords |-> <<>>, risk_weight |-> 500]]])],
      [filename |-> <<"s", ".", "j", "s", "o", "n">>,
       content |-> Json([platforms |->
                            [telegram |-> PlatformRecord(TRUE, <<>>, 500, TRUE)]])] }

UpdateKeywordSettings ==
    \E settings \in KeywordSettingsBodies : update_keyword_settings(settings)

UpdatePlatformSettings ==
    \E settings \in PlatformSettingsBodies : update_platform_settings(settings)

DeleteKeywordCategory ==
    \E category \in DeletedCategories : delete_keyword_category(category)

ImportSettings ==
    \E file \in ImportFiles : import_settings(file)

AddKeywordCategory ==
    \E settings \in KeywordSettingsBodies : add_keyword_category(settings)

NextSettings ==
    \/ CheckKeywords
    \/ UpdateKeywordSettings
    \/ AddKeywordCategory
    \/ UpdatePlatformSettings
    \/ DeleteKeywordCategory
    \/ ImportSettings

SpecSettings == InitSettings /\ [][NextSettings]_vars

(***************************************************************************)
(* Inputs of the hotel check: claimed names, and the registry files the    *)
(* deployment may hold: data/official_resorts.csv missing, without a name  *)
(* column, or with the names listed.                                       *)
(***************************************************************************)
NaN == <<"NaN">>

N_sunset_paradise_resort ==
    <<"S","u","n","s","e","t"," ","P","a","r","a","d","i","s","e"," ","R","e","s","o","r","t">>
N_sunset_paradise_lower ==
    <<"s","u","n","s","e","t"," ","p","a","r","a","d","i","s","e">>
N_sunset_paradise_beach_resort ==
    <<"S","u","n","s","e","t"," ","P","a","r","a","d","i","s","e"," ","B","e","a","c","h"," ","R","e","s","o","r","t">>
N_sunset_paradise_beach_resort_goa ==
    <<"S","u","n","s","e","t"," ","P","a","r","a","d","i","s","e"," ","B","e","a","c","h"," ","R","e","s","o","r","t"," ","G","o","a">>
N_blue_lagoon ==
    <<"B","l","u","e"," ","L","a","g","o","o","n">>
N_blue_horizon_resort ==
    <<"B","l","u","e"," ","H","o","r","i","z","o","n"," ","R","e","s","o","r","t">>
N_starlight_getaway ==
    <<"S","t","a","r","l","i","g","h","t"," ","G","e","t","a","w","a","y">>
N_resort_goa_parens ==
    <<"R","e","s","o","r","t"," ","(","G","o","a",")">>
N_goa_old_open ==
    <<"G","o","a"," ","(","O","l","d">>
N_blue_old_open ==
    <<"B","l","u","e"," ","(","O","l","d">>
N_blue_lagoon_upper ==
    <<"B","L","U","E"," ","L","A","G","O","O","N">>

HotelNames ==
    { N_sunset_paradise_resort, N_sunset_paradise_lower,
      N_sunset_paradise_beach_resort_goa, N_blue_lagoon, N_starlight_getaway,
      N_resort_goa_parens, N_goa_old_open, N_blue_old_open,
      N_blue_lagoon_upper, <<>> }

Registry(names) == [exists |-> TRUE, has_name |-> TRUE, names |-> names]

RegistryFiles ==
    { [exists |-> FALSE],
      [exists |-> TRUE, has_name |-> FALSE, names |-> <<>>],
      Registry(<<>>),
      Registry(<<N_sunset_paradise_beach_resort>>),
      Registry(<<N_blue_horizon_resort, N_sunset_paradise_beach_resort>>),
      Registry(<<NaN, N_blue_horizon_resort>>),
      Registry(<<N_resort_goa_parens, N_sunset_paradise_beach_resort,
                 N_blue_horizon_resort>>) }

\* What an upload may leave at data/official_resorts.csv besides those: a
\* file pandas cannot parse (here one without a byte), and the first row of
\* a file of two rows.
EmptyFile == [exists |-> TRUE, has_name |-> FALSE, names |-> <<>>, readable |-> FALSE]

WrittenFiles ==
    { EmptyFile, Registry(<<N_blue_horizon_resort>>) }

(***************************************************************************)
(* routes/hotels.py.  The registry file is [exists |-> FALSE] or a table   *)
(* read by pandas: whether it has a name column, and the values of that    *)
(* column top down, NaN for a missing one.  The session is the storage     *)
(* collaborator, modelled by the calls the handler makes on it             *)
(* (query/filter/first, add, commit); the status strings are written       *)
(* without their leading symbol.                                           *)
(***************************************************************************)
\* re.compile: over letters, blanks and parentheses a pattern compiles
\* exactly when its parentheses balance.
RECURSIVE ParensBalance(_, _, _)
ParensBalance(pat, i, depth) ==
    IF i > Len(pat) THEN depth = 0
    ELSE IF pat[i] = "(" THEN ParensBalance(pat, i + 1, depth + 1)
    ELSE IF pat[i] = ")" THEN depth > 0 /\ ParensBalance(pat, i + 1, depth - 1)
    ELSE ParensBalance(pat, i + 1, depth)

RegexCompiles(pat) == ParensBalance(pat, 1, 0)

IsParen(c) == c \in {"(", ")"}

\* What a compiled pattern has to find: a group matches what it encloses.
RegexLiteral(pat) == SelectSeq(pat, LAMBDA c : ~IsParen(c))

\* Series.str.contains(pat, case=False, na=False) on one value of the
\* column: pat is a regular expression, searched without regard to case.
StrContains(name, pat) ==
    /\ name # NaN
    /\ Contains(LowerStr(name), LowerStr(RegexLiteral(pat)))

\* df[df['name'].str.contains(pat, case=False, na=False)]
Matches(names, pat) == SelectSeq(names, LAMBDA name : StrContains(name, pat))

\* str.split(): the maximal runs of non-blank characters, in order.
RECURSIVE SplitFrom(_, _, _)
SplitFrom(text, i, word) ==
    IF i > Len(text)
    THEN (IF Len(word) > 0 THEN <<word>> ELSE <<>>)
    ELSE IF text[i] \in Whitespace
    THEN (IF Len(word) > 0 THEN <<word>> ELSE <<>>) \o SplitFrom(text, i + 1, <<>>)
    ELSE SplitFrom(text, i + 1, Append(word, text[i]))

Split(text) == SplitFrom(text, 1, <<>>)

\* Mutant of MeaningfulWord: only words longer than 8 characters count.
MeaningfulWord_Longer(word) == Len(word) > 8

\* line 107: only meaningful words are checked
MeaningfulWord(word) == Len(word) > 3

\* lines 103-110: the loop over the words of the claimed name; the result is
\* the list partial_matches, or "error" once a word fails to compile.
RECURSIVE PartialLoop(_, _, _, _)
PartialLoop(names, words, i, partial_matches) ==
    IF i > Len(words) THEN [raised |-> FALSE, partial_matches |-> partial_matches]
    ELSE IF ~MeaningfulWord(words[i])
    THEN PartialLoop(names, words, i + 1, partial_matches)
    ELSE IF ~RegexCompiles(words[i])
    THEN [raised |-> TRUE, partial_matches |-> partial_matches]
    ELSE PartialLoop(names, words, i + 1,
                     partial_matches \o Matches(names, words[i]))

\* Mutant of Verdict: the confidence is Low whatever the tier.
Verdict_AlwaysLow(status, notes, cited, confidence) ==
    [raised |-> FALSE, status |-> status, notes |-> notes, cited |-> cited,
     confidence |-> "Low"]

Verdict(status, notes, cited, confidence) ==
    [raised |-> FALSE, status |-> status, notes |-> notes, cited |-> cited,
     confidence |-> confidence]

VerdictRaised == [raised |-> TRUE]

\* Mutant of LegitimacyVerdict: a missing registry file fails the request.
LegitimacyVerdict_NoFallback(csv, hotel_name) == VerdictRaised

\* lines 84-120: the verdict for a claimed name, or the exception that
\* leaves the try block.  cited is the registry name the note quotes.
LegitimacyVerdict(csv, hotel_name) ==
    IF ~csv.exists
    THEN Verdict("Fake", "Cannot verify - Official resort database not available",
                 <<>>, "Low")
    ELSE IF ~csv.has_name \/ ~RegexCompiles(hotel_name)
    THEN VerdictRaised
    ELSE LET exact_matches == Matches(csv.names, hotel_name) IN
         IF Len(exact_matches) > 0
         THEN Verdict("Official", "Verified official resort: ", exact_matches[1], "High")
         ELSE LET partial == PartialLoop(csv.names, Split(hotel_name), 1, <<>>) IN
              IF partial.raised
              THEN VerdictRaised
              ELSE IF Len(partial.partial_matches) > 0
              THEN Verdict("Uncertain", "Similar official resort found: ",
                           partial.partial_matches[1], "Medium")
              ELSE Verdict("Fake",
                           "Not found in official resort database - potentially fraudulent",
                           <<>>, "High")

\* LegitimacyVerdict tabulated over the registry files and claimed names of
\* the model, so that each verdict is computed once.
VerdictOf ==
    [csv \in RegistryFiles \cup WrittenFiles |->
        [hotel_name \in HotelNames |-> LegitimacyVerdict(csv, hotel_name)]]

\* Mutant of RecommendedAction: Uncertain is treated like Fake.
RecommendedAction_UncertainAsFake(status) ==
    IF status \in {"Fake", "Uncertain"}
    THEN [recommended_action |-> "Report to Tourism Department immediately",
          urgency |-> "High"]
    ELSE [recommended_action |-> "No action required - legitimate business",
          urgency |-> "None"]

\* lines 148-156
RecommendedAction(status) ==
    IF status = "Fake"
    THEN [recommended_action |-> "Report to Tourism Department immediately",
          urgency |-> "High"]
    ELSE IF status = "Uncertain"
    THEN [recommended_action |-> "Conduct manual investigation and cross-reference",
          urgency |-> "Medium"]
    ELSE [recommended_action |-> "No action required - legitimate business",
          urgency |-> "None"]

\* Mutant of ExistingHotel: the query never finds a row.
ExistingHotel_NeverFound(table, hotel_name) == 0

\* lines 123-125: the first row whose claimed_name equals the name, 0 if none.
ExistingHotel(table, hotel_name) ==
    IF \E i \in 1..Len(table) : table[i].claimed_name = hotel_name
    THEN CHOOSE i \in 1..Len(table) :
            /\ table[i].claimed_name = hotel_name
            /\ \A j \in 1..(i - 1) : table[j].claimed_name # hotel_name
    ELSE 0

\* Mutant of UpdateRecord: a request without a domain keeps the stored one.
UpdateRecord_KeepDomain(table, existing, verdict, request) ==
    [table EXCEPT
        ![existing].status = verdict.status,
        ![existing].notes = <<verdict.notes, verdict.cited>>,
        ![existing].website_domain =
            IF request.website_domain = None THEN @ ELSE request.website_domain]

\* lines 128-131: the row the query returned takes the new status, notes
\* and website domain.
UpdateRecord(table, existing, verdict, request) ==
    [table EXCEPT
        ![existing].status = verdict.status,
        ![existing].notes = <<verdict.notes, verdict.cited>>,
        ![existing].website_domain = request.website_domain]

\* lines 78-174: POST /hotels/check
check_hotel_legitimacy(request) ==
    LET verdict == VerdictOf[official_resorts_csv][request.hotel_name]
        existing == ExistingHotel(fake_hotels, request.hotel_name)
    IN  /\ hotel_request' = request
        /\ IF verdict.raised
           THEN /\ hotel_response' = HttpError(500)
                /\ UNCHANGED fake_hotels
           ELSE /\ existing = 0 => Len(fake_hotels) < MaxHotels
                /\ fake_hotels' =
                      IF existing # 0
                      THEN UpdateRecord(fake_hotels, existing, verdict, request)
                      ELSE Append(fake_hotels,
                                  [id |-> Len(fake_hotels) + 1,
                                   claimed_name |-> request.hotel_name,
                                   website_domain |-> request.website_domain,
                                   status |-> verdict.status,
                                   notes |-> <<verdict.notes, verdict.cited>>])
                /\ hotel_response' =
                      [status |-> "success",
                       hotel_id |-> IF existing # 0 THEN fake_hotels[existing].id
                                    ELSE Len(fake_hotels) + 1,
                       hotel_name |-> request.hotel_name,
                       website_domain |-> request.website_domain,
                       verification_status |-> verdict.status,
                       confidence_level |-> verdict.confidence,
                       notes |-> <<verdict.notes, verdict.cited>>,
                       recommended_action |->
                           RecommendedAction(verdict.status).recommended_action,
                       urgency |-> RecommendedAction(verdict.status).urgency,
                       is_suspicious |-> verdict.status \in {"Fake", "Uncertain"}]
        /\ UNCHANGED <<official_resorts_csv, flag_request, flag_response, inflight,
                       uploadVars,
                       scorerVars, ingestVars, settingsVars>>

HotelCheckRequests ==
    [hotel_name : HotelNames, website_domain : {None, <<"x", ".", "i", "n">>}]

InitHotels ==
    /\ message_text = <<>>
    /\ result = Pending
    /\ IngestIdle
    /\ SettingsIdle
    /\ official_resorts_csv \in RegistryFiles
    /\ fake_hotels = <<>>
    /\ hotel_request = NoResponse
    /\ hotel_response = NoResponse
    /\ VerifyIdle
    /\ UploadIdle

CheckHotel ==
    \E request \in HotelCheckRequests : check_hotel_legitimacy(request)

NextHotels == CheckHotel

SpecHotels == InitHotels /\ [][NextHotels]_vars

(***************************************************************************)
(* routes/flags.py, POST /flag/hotel: the second entry point that verifies *)
(* a hotel against the registry file and writes the fake_hotels table.     *)
(***************************************************************************)
\* lines 55-82: the status and notes for a claimed name, or the exception
\* that leaves the try block.  Only the first word of the name is tried as
\* a partial match, whatever its length; a name without words leaves the
\* list [] at line 75, which has no attribute empty.
FlagVerdict(csv, hotel_name) ==
    IF ~csv.exists
    THEN Verdict("Fake", "Cannot verify - Official resort database not found",
                 <<>>, "")
    ELSE IF ~csv.has_name \/ ~RegexCompiles(hotel_name)
    THEN VerdictRaised
    ELSE LET hotel_matches == Matches(csv.names, hotel_name) IN
         IF Len(hotel_matches) > 0
         THEN Verdict("Official", "Verified official resort: ", hotel_matches[1], "")
         ELSE IF Len(Split(hotel_name)) = 0 \/ ~RegexCompiles(Split(hotel_name)[1])
         THEN VerdictRaised
         ELSE LET partial_matches == Matches(csv.names, Split(hotel_name)[1]) IN
              IF Len(partial_matches) > 0
              THEN Verdict("Uncertain", "Similar official resort found: ",
                           partial_matches[1], "")
              ELSE Verdict("Fake",
                           "Not found in official resort database - potentially fake",
                           <<>>, "")

\* The registry files and the bodies of POST /flag/hotel in this model.
FlagRegistryFiles ==
    { [exists |-> FALSE],
      Registry(<<>>),
      Registry(<<N_blue_horizon_resort, N_sunset_paradise_beach_resort>>) }

FlagHotelNames ==
    { N_sunset_paradise_lower, N_blue_lagoon, N_starlight_getaway,
      N_goa_old_open, <<>> }

HotelRequests == [hotel_name : FlagHotelNames, website_domain : {None}]

\* FlagVerdict tabulated over those files and names.
FlagVerdictOf ==
    [csv \in FlagRegistryFiles |->
        [hotel_name \in FlagHotelNames |-> FlagVerdict(csv, hotel_name)]]

\* lines 96-101
FlagTakedown(status) ==
    IF status = "Fake" THEN "Report to Tourism Dept"
    ELSE IF status = "Uncertain" THEN "Manual investigation required"
    ELSE "No action needed - verified official"

\* lines 48-116: POST /flag/hotel.  Lines 85-93 build a new FakeHotel and
\* add it, whether or not the table has a row of that claimed name.
flag_hotel(request) ==
    LET verdict == FlagVerdictOf[official_resorts_csv][request.hotel_name]
    IN  /\ flag_request' = request
        /\ IF verdict.raised
           THEN /\ flag_response' = HttpError(500)
                /\ UNCHANGED fake_hotels
           ELSE /\ Len(fake_hotels) < MaxHotels
                /\ fake_hotels' =
                      Append(fake_hotels,
                             [id |-> Len(fake_hotels) + 1,
                              claimed_name |-> request.hotel_name,
                              website_domain |-> request.website_domain,
                              status |-> verdict.status,
                              notes |-> <<verdict.notes, verdict.cited>>])
                /\ flag_response' =
                      [status |-> "success",
                       hotel_name |-> request.hotel_name,
                       website_domain |-> request.website_domain,
                       verification_status |-> verdict.status,
                       notes |-> <<verdict.notes, verdict.cited>>,
                       takedown_recommendation |-> FlagTakedown(verdict.status),
                       is_suspicious |-> verdict.status \in {"Fake", "Uncertain"}]
        /\ UNCHANGED <<official_resorts_csv, hotel_request, hotel_response, inflight,
                       uploadVars,
                       scorerVars, ingestVars, settingsVars>>

InitVerify ==
    /\ message_text = <<>>
    /\ result = Pending
    /\ IngestIdle
    /\ SettingsIdle
    /\ official_resorts_csv \in FlagRegistryFiles
    /\ fake_hotels = <<>>
    /\ hotel_request = NoResponse
    /\ hotel_response = NoResponse
    /\ VerifyIdle
    /\ UploadIdle

FlagHotel ==
    \E request \in HotelRequests : flag_hotel(request)

NextVerify ==
    \/ CheckHotel
    \/ FlagHotel

SpecVerify == InitVerify /\ [][NextVerify]_vars

(***************************************************************************)
(* POST /hotels/check served by several workers against one database.      *)
(* Each request runs in a session of its own; the handler takes no lock    *)
(* and the table has no unique constraint on claimed_name (models.py lines *)
(* 67-74), so what one request does between its query (lines 123-125) and  *)
(* its write (lines 127-145) is interleaved freely with the other request. *)
(***************************************************************************)
OverlapRegistryFiles ==
    { [exists |-> FALSE],
      Registry(<<N_blue_horizon_resort, N_sunset_paradise_beach_resort>>) }

OverlapRequests ==
    [hotel_name : {N_blue_lagoon, N_starlight_getaway, N_goa_old_open},
     website_domain : {None, <<"x", ".", "i", "n">>}]

\* lines 84-125: worker w takes a request, computes the verdict and queries
\* the row of the claimed name.
begin_check(w, request) ==
    LET verdict == VerdictOf[official_resorts_csv][request.hotel_name]
        existing == ExistingHotel(fake_hotels, request.hotel_name)
    IN  /\ inflight[w].pc = "idle"
        /\ IF verdict.raised
           THEN /\ hotel_request' = request
                /\ hotel_response' = HttpError(500)
                /\ UNCHANGED inflight
           ELSE /\ inflight' = [inflight EXCEPT ![w] =
                                   [pc |-> "queried", request |-> request,
                                    verdict |-> verdict, existing |-> existing]]
                /\ UNCHANGED <<hotel_request, hotel_response>>
        /\ UNCHANGED <<official_resorts_csv, fake_hotels, flag_request, flag_response,
                       uploadVars,
                       scorerVars, ingestVars, settingsVars>>

\* lines 127-171: worker w updates the row its query returned, or inserts a
\* new one if the query returned none, commits and replies.
finish_check(w) ==
    LET request == inflight[w].request
        verdict == inflight[w].verdict
        existing == inflight[w].existing
    IN  /\ inflight[w].pc = "queried"
        /\ existing = 0 => Len(fake_hotels) < MaxHotels
        /\ fake_hotels' =
              IF existing # 0
              THEN UpdateRecord(fake_hotels, existing, verdict, request)
              ELSE Append(fake_hotels,
                          [id |-> Len(fake_hotels) + 1,
                           claimed_name |-> request.hotel_name,
                           website_domain |-> request.website_domain,
                           status |-> verdict.status,
                           notes |-> <<verdict.notes, verdict.cited>>])
        /\ hotel_request' = request
        /\ hotel_response' =
              [status |-> "success",
               hotel_id |-> IF existing # 0 THEN fake_hotels[existing].id
                            ELSE Len(fake_hotels) + 1,
               hotel_name |-> request.hotel_name,
               website_domain |-> request.website_domain,
               verification_status |-> verdict.status,
               confidence_level |-> verdict.confidence,
               notes |-> <<verdict.notes, verdict.cited>>,
               recommended_action |->
                   RecommendedAction(verdict.status).recommended_action,
               urgency |-> RecommendedAction(verdict.status).urgency,
               is_suspicious |-> verdict.status \in {"Fake", "Uncertain"}]
        /\ inflight' = [inflight EXCEPT ![w] = [pc |-> "idle"]]
        /\ UNCHANGED <<official_resorts_csv, flag_request, flag_response, uploadVars,
                       scorerVars, ingestVars, settingsVars>>

InitOverlap ==
    /\ message_text = <<>>
    /\ result = Pending
    /\ IngestIdle
    /\ SettingsIdle
    /\ official_resorts_csv \in OverlapRegistryFiles
    /\ fake_hotels = <<>>
    /\ hotel_request = NoResponse
    /\ hotel_response = NoResponse
    /\ VerifyIdle
    /\ UploadIdle

BeginCheck ==
    \E w \in Workers, request \in OverlapRequests : begin_check(w, request)

FinishCheck ==
    \E w \in Workers : finish_check(w)

NextOverlap ==
    \/ BeginCheck
    \/ FinishCheck

SpecOverlap == InitOverlap /\ [][NextOverlap]_vars

(***************************************************************************)
(* routes/hotels.py, POST /hotels/upload-resorts.  The uploaded file is    *)
(* its name and what pandas makes of its bytes.  hotels.py imports no      *)
(* datetime (lines 1-11; the import of line 193 is local to                *)
(* get_hotel_statistics), so the two expressions that use it, at lines 235 *)
(* and 267, raise NameError.                                               *)
(***************************************************************************)
CsvSuffix == <<".", "c", "s", "v">>

\* lines 243-258: the second try block; "ok" if it leaves df checked.
ValidateCsv(csv) ==
    IF "readable" \in DOMAIN csv THEN "Invalid CSV format"
    ELSE IF ~csv.has_name THEN "Invalid CSV format"
    ELSE "ok"

\* lines 220-274, the handler as a whole.
upload_official_resorts(file) ==
    /\ upload_inflight.pc = "idle"
    /\ upload_request' = file
    /\ IF ~EndsWith(file.filename, CsvSuffix)
       THEN \* line 228
            /\ upload_response' = HttpErrorDetail(400, "File must be a CSV file")
            /\ UNCHANGED <<official_resorts_csv, backups>>
       ELSE IF official_resorts_csv.exists
       THEN \* line 235: NameError before shutil.copy2 is reached
            /\ upload_response' = HttpErrorDetail(500, "Error uploading resort data")
            /\ UNCHANGED <<official_resorts_csv, backups>>
       ELSE \* lines 239-240: the new file is written
            /\ official_resorts_csv' = file.content
            /\ UNCHANGED backups
            /\ upload_response' =
                  IF ValidateCsv(file.content) # "ok"
                  THEN HttpErrorDetail(400, ValidateCsv(file.content))
                  ELSE \* line 267: NameError while the reply is built
                       HttpErrorDetail(500, "Error uploading resort data")
    /\ UNCHANGED <<fake_hotels, hotel_request, hotel_response, flag_request,
                   flag_response, inflight, upload_inflight,
                   scorerVars, ingestVars, settingsVars>>

UploadedFile(filename, content) == [filename |-> filename, content |-> content]

UploadFiles ==
    { UploadedFile(<<"r", ".", "t", "x", "t">>,
                   Registry(<<N_sunset_paradise_beach_resort>>)),
      UploadedFile(<<"r", ".", "c", "s", "v">>,
                   Registry(<<N_blue_horizon_resort, N_sunset_paradise_beach_resort>>)),
      UploadedFile(<<"r", ".", "c", "s", "v">>,
                   [exists |-> TRUE, has_name |-> FALSE, names |-> <<>>]),
      UploadedFile(<<"r", ".", "c", "s", "v">>, EmptyFile) }

UploadRegistryFiles ==
    { [exists |-> FALSE], Registry(<<N_sunset_paradise_beach_resort>>) }

InitUpload ==
    /\ message_text = <<>>
    /\ result = Pending
    /\ IngestIdle
    /\ SettingsIdle
    /\ official_resorts_csv \in UploadRegistryFiles
    /\ fake_hotels = <<>>
    /\ hotel_request = NoResponse
    /\ hotel_response = NoResponse
    /\ VerifyIdle
    /\ UploadIdle

UploadResorts ==
    \E file \in UploadFiles : upload_official_resorts(file)

UploadCheckRequests ==
    [hotel_name : {N_sunset_paradise_lower, N_starlight_getaway},
     website_domain : {None}]

CheckAroundUpload ==
    \E request \in UploadCheckRequests : check_hotel_legitimacy(request)

NextUpload ==
    \/ CheckAroundUpload
    \/ UploadResorts

SpecUpload == InitUpload /\ [][NextUpload]_vars

(***************************************************************************)
(* An upload served while other workers serve /hotels/check: the file is   *)
(* opened for writing at its final path (line 239), which empties it, and  *)
(* shutil.copyfileobj fills it piece by piece (line 240); a check reads    *)
(* whatever is at the path at that moment (lines 86-92).                   *)
(***************************************************************************)
\* lines 225-239: up to the open of the file for writing.
begin_upload(file) ==
    /\ upload_inflight.pc = "idle"
    /\ upload_request' = file
    /\ IF ~EndsWith(file.filename, CsvSuffix)
       THEN /\ upload_response' = HttpErrorDetail(400, "File must be a CSV file")
            /\ UNCHANGED <<official_resorts_csv, upload_inflight>>
       ELSE IF official_resorts_csv.exists
       THEN /\ upload_response' = HttpErrorDetail(500, "Error uploading resort data")
            /\ UNCHANGED <<official_resorts_csv, upload_inflight>>
       ELSE /\ official_resorts_csv' = EmptyFile
            /\ upload_inflight' = [pc |-> "writing", file |-> file,
                                   previous |-> official_resorts_csv]
            /\ UNCHANGED upload_response
    /\ UNCHANGED <<backups, fake_hotels, hotel_request, hotel_response, flag_request,
                   flag_response, inflight, scorerVars, ingestVars, settingsVars>>

\* line 240: the rows written so far, fewer than the file has.
write_chunk(rows) ==
    /\ upload_inflight.pc = "writing"
    /\ "readable" \notin DOMAIN upload_inflight.file.content
    /\ upload_inflight.file.content.has_name
    /\ rows < Len(upload_inflight.file.content.names)
    /\ official_resorts_csv # EmptyFile => rows > Len(official_resorts_csv.names)
    /\ official_resorts_csv' =
          Registry(SubSeq(upload_inflight.file.content.names, 1, rows))
    /\ UNCHANGED <<uploadVars, fake_hotels, hotel_request, hotel_response,
                   flag_request, flag_response, inflight,
                   scorerVars, ingestVars, settingsVars>>

\* lines 240-274: the rest of the file is written and closed, then checked.
finish_upload ==
    /\ upload_inflight.pc = "writing"
    /\ official_resorts_csv' = upload_inflight.file.content
    /\ upload_response' =
          IF ValidateCsv(upload_inflight.file.content) # "ok"
          THEN HttpErrorDetail(400, ValidateCsv(upload_inflight.file.content))
          ELSE HttpErrorDetail(500, "Error uploading resort data")
    /\ upload_inflight' = [pc |-> "idle"]
    /\ UNCHANGED <<backups, upload_request, fake_hotels, hotel_request,
                   hotel_response, flag_request, flag_response, inflight,
                   scorerVars, ingestVars, settingsVars>>

BeginUpload ==
    \E file \in UploadFiles : begin_upload(file)

WriteChunk ==
    \E rows \in 1..MaxHotels : write_chunk(rows)

FinishUpload == finish_upload

NextSwap ==
    \/ CheckAroundUpload
    \/ BeginUpload
    \/ WriteChunk
    \/ FinishUpload

SpecSwap == InitUpload /\ [][NextSwap]_vars

(***************************************************************************)
(* Vocabulary of the properties of the scorer.                             *)
(***************************************************************************)
Returned == result.outcome = "returned"

Flagged == Returned /\ Len(result.matched_keywords) > 0

\* Keyword k occurs in the text as a case-insensitive substring.
Occurs(k, text) == Contains(LowerStr(text), LowerStr(k))

\* The distinct rule keywords that occur in the text.
OccurringKeywords(text) ==
    { SCAM_KEYWORDS[i] : i \in { j \in 1..Len(SCAM_KEYWORDS) : Occurs(SCAM_KEYWORDS[j], text) } }

\* The positions at which k occurs in the text.
Positions(k, text) ==
    { i \in 1..Len(text) : LiteralAt(text, i, k) }

\* A currency amount as a reader of the text sees one: the rupee sign or a
\* currency code (INR, Rs, Rs.) followed by digits, or digits followed by
\* the unit word rupee(s); blanks may separate the two parts.
CurrencyAmount(text) ==
    \E i \in 1..Len(text) :
        \/ text[i] = "U+20B9" /\ DigitAfterSpaces(text, i + 1)
        \/ LiteralAt(text, i, <<"i", "n", "r">>) /\ DigitAfterSpaces(text, i + 3)
        \/ LiteralAt(text, i, <<"r", "s", ".">>) /\ DigitAfterSpaces(text, i + 3)
        \/ LiteralAt(text, i, <<"r", "s">>) /\ DigitAfterSpaces(text, i + 2)
        \/ /\ text[i] \in Digits
           /\ \E j \in (i + 1)..Len(text) :
                 /\ \A m \in (i + 1)..(j - 1) : text[m] = " "
                 /\ LiteralAt(text, j, <<"r", "u", "p", "e", "e">>)

\* The three characters that a mis-decoded rupee sign turns into, followed
\* by digits: neither clearly an amount nor clearly none.
GarbledAmount(text) ==
    \E i \in 1..Len(text) :
        /\ LiteralAt(text, i, <<"U+00E2", "U+201A", "U+0105">>)
        /\ DigitAfterSpaces(text, i + 3)

ClaimedBase(text) ==
    LET n == Cardinality(OccurringKeywords(text)) IN
    IF n = 1 THEN 40 ELSE IF n = 2 THEN 70 ELSE 85

\* C2: a text with at least one matched keyword and a currency amount scores
\* min(90, base + 20): 60 for one keyword, 90 for two or more.
C2_CurrencyBoost ==
    (/\ Returned
     /\ OccurringKeywords(message_text) # {}
     /\ CurrencyAmount(message_text))
    => /\ result.risk_score = Min(90, ClaimedBase(message_text) + 20)
       /\ result.risk_score <= 90

\* C4: the scorer has no error outcome; empty text and null text both give
\* risk 0 with an empty matched set.
C4_EmptyOrNullScoresZero ==
    (result # Pending /\ message_text \in {<<>>, None})
    => /\ Returned
       /\ result.risk_score = 0
       /\ result.matched_keywords = <<>>

\* The category buckets in their priority order.
ProstitutionWords == {K_escort, K_prostitute, K_call_girl, K_massage, K_dating}

GamblingWords == {K_casino, K_gambling, K_betting, K_lottery}

FakeHotelWords == {K_resort, K_fake}

\* C5: the category of a flagged text is the first bucket with a match in
\* the order prostitution, gambling, fake_hotel, scam.
C5_CategoryPriority ==
    Flagged =>
        LET occ == OccurringKeywords(message_text) IN
        /\ occ \cap ProstitutionWords # {} => result.category = "prostitution"
        /\ (occ \cap ProstitutionWords = {} /\ occ \cap GamblingWords # {})
              => result.category = "gambling"
        /\ (/\ occ \cap ProstitutionWords = {}
            /\ occ \cap GamblingWords = {}
            /\ occ \cap FakeHotelWords # {})
              => result.category = "fake_hotel"
        /\ occ \cap (ProstitutionWords \cup GamblingWords \cup FakeHotelWords) = {}
              => result.category = "scam"

\* C5 witness: a flagged text with a prostitution keyword and a gambling
\* keyword, resolved to prostitution.
C5_Witness ==
    /\ Flagged
    /\ OccurringKeywords(message_text) \cap ProstitutionWords # {}
    /\ OccurringKeywords(message_text) \cap GamblingWords # {}
    /\ result.category = "prostitution"

\* C6: the takedown recommendation of a flagged text is the fixed lookup of
\* its category, and a category absent from the lookup gets the generic one.
C6_TakedownLookup ==
    /\ Flagged =>
          /\ result.category = "scam"
                => result.takedown_recommendation = "Report to Cyber Cell"
          /\ result.category = "fake_hotel"
                => result.takedown_recommendation = "Report to Tourism Dept"
          /\ result.category \in {"prostitution", "gambling"}
                => result.takedown_recommendation = "Escalate for legal action"
    /\ \A absent \in {"phishing", "unset", ""} :
          TakedownFor(absent) = "Monitor and investigate further"

\* C6 witness: a flagged text of category fake_hotel with its action.
C6_Witness ==
    /\ Flagged
    /\ result.category = "fake_hotel"
    /\ result.takedown_recommendation = "Report to Tourism Dept"

\* The occurring keywords from rule index i on, in rule-set order, joined.
RECURSIVE ListedFrom(_, _, _)
ListedFrom(text, i, first) ==
    IF i > Len(SCAM_KEYWORDS) THEN <<>>
    ELSE IF Occurs(SCAM_KEYWORDS[i], text)
         THEN (IF first THEN <<>> ELSE <<",", " ">>)
              \o SCAM_KEYWORDS[i] \o ListedFrom(text, i + 1, FALSE)
         ELSE ListedFrom(text, i + 1, first)

\* C7: the reason of a flagged text is the fixed prefix followed by the
\* matched keywords, each once, in rule-set order, joined by ", ".
C7_ReasonFormat ==
    Flagged =>
        result.flagged_reason = REASON_PREFIX \o ListedFrom(message_text, 1, TRUE)

\* C7 witness: casino stands before loan in the text and after it in the
\* reason.
C7_Witness ==
    /\ Flagged
    /\ \E i \in Positions(K_casino, message_text) :
       \E j \in Positions(K_loan, message_text) : i < j
    /\ result.flagged_reason = REASON_PREFIX \o K_loan \o <<",", " ">> \o K_casino

(***************************************************************************)
(* Properties of the ingestion.                                            *)
(***************************************************************************)

\* C3: a text with no rule keyword, with or without a currency amount,
\* scores 0 with no category and no takedown recommendation, and no
\* ingestion persists a row for such a record.
C3_NoKeywordNoRow ==
    /\ (Returned /\ OccurringKeywords(message_text) = {})
          => /\ result.risk_score = 0
             /\ result.category = "unset"
             /\ result.takedown_recommendation = ""
    /\ \A i \in 1..Len(flagged_posts) :
          OccurringKeywords(flagged_posts[i].message_text) # {}
    /\ (/\ ingest_response.status = "success"
        /\ \A i \in 1..Len(messages) :
              OccurringKeywords(messages[i].message_text) = {})
          => ingest_response.flagged_posts = 0

\* C3 witness: a committed batch held a keyword-free record with a currency
\* amount next to a flagged one, and only the flagged one became a row.
C3_Witness ==
    /\ ingest_response.status = "success"
    /\ \E i \in 1..Len(messages) :
          /\ OccurringKeywords(messages[i].message_text) = {}
          /\ CurrencyAmount(messages[i].message_text)
    /\ ingest_response.flagged_posts = 1
    /\ Len(flagged_posts) = 1
    /\ Returned
    /\ OccurringKeywords(message_text) = {}
    /\ CurrencyAmount(message_text)

(***************************************************************************)
(* Properties of the settings.                                             *)
(***************************************************************************)

\* C8: once a keyword-settings update or an add-category call has succeeded
\* with keyword k, a later scoring of a text containing k counts k as a
\* matched keyword.
C8_SettingsReachScorer ==
    [][ (/\ settings_response.status = "success"
         /\ "settings" \in DOMAIN settings_response
         /\ result = Pending
         /\ result' # Pending)
        => /\ result'.outcome = "returned"
           /\ \A i \in 1..Len(settings_response.settings.keywords) :
                 LET k == settings_response.settings.keywords[i] IN
                 Occurs(k, message_text) => InSeq(k, result'.matched_keywords)
      ]_vars

(***************************************************************************)
(* Properties of the hotel check.                                          *)
(***************************************************************************)
RegistryAvailable == official_resorts_csv.exists /\ official_resorts_csv.has_name

HotelChecked == hotel_request # NoResponse

\* Plain case-insensitive substring containment of needle in haystack.
ContainsCI(haystack, needle) == Contains(LowerStr(haystack), LowerStr(needle))

\* The registry rows related to a claimed name by containment either way.
RelatedRows(claimed) ==
    { i \in 1..Len(official_resorts_csv.names) :
        LET name == official_resorts_csv.names[i] IN
        /\ name # NaN
        /\ \/ ContainsCI(name, claimed)
           \/ ContainsCI(claimed, name) }

\* C9: with the registry available, a claimed name that some registry name
\* contains, or that contains some registry name, is Official / High, and
\* the note cites the first such registry entry.
C9_ContainmentEitherWayIsOfficial ==
    (/\ HotelChecked
     /\ RegistryAvailable
     /\ RelatedRows(hotel_request.hotel_name) # {})
    => /\ hotel_response.status = "success"
       /\ hotel_response.verification_status = "Official"
       /\ hotel_response.confidence_level = "High"
       /\ \E i \in RelatedRows(hotel_request.hotel_name) :
             /\ \A j \in RelatedRows(hotel_request.hotel_name) : i <= j
             /\ hotel_response.notes[2] = official_resorts_csv.names[i]

\* The request of C10 met a registry whose rows related to it are exactly
\* those named Sunset Paradise Beach Resort, at least one.
SunsetParadiseCase ==
    /\ HotelChecked
    /\ RegistryAvailable
    /\ hotel_request.hotel_name = N_sunset_paradise_resort
    /\ \E i \in 1..Len(official_resorts_csv.names) :
          official_resorts_csv.names[i] = N_sunset_paradise_beach_resort
    /\ \A i \in 1..Len(official_resorts_csv.names) :
          LET name == official_resorts_csv.names[i] IN
          (name # NaN /\ ContainsCI(name, <<"S", "u", "n", "s", "e", "t">>))
             => name = N_sunset_paradise_beach_resort

\* C10 as stated: Sunset Paradise Resort against Sunset Paradise Beach
\* Resort is Official with High confidence.
C10_SunsetParadiseOfficial ==
    SunsetParadiseCase
    => /\ hotel_response.status = "success"
       /\ hotel_response.verification_status = "Official"
       /\ hotel_response.confidence_level = "High"

\* C10 amended: Sunset Paradise Resort against Sunset Paradise Beach Resort
\* is Uncertain with Medium confidence, the note citing that entry.
C10_SunsetParadiseUncertain ==
    SunsetParadiseCase
    => /\ hotel_response.status = "success"
       /\ hotel_response.verification_status = "Uncertain"
       /\ hotel_response.confidence_level = "Medium"
       /\ hotel_response.notes[2] = N_sunset_paradise_beach_resort

\* C10 witness: the case has happened and was answered.
C10_Witness ==
    /\ SunsetParadiseCase
    /\ hotel_response.status = "success"
    /\ Len(official_resorts_csv.names) >= 2

\* The reply to the last check carries this status and confidence.
Answered(status, confidence) ==
    /\ hotel_response.status = "success"
    /\ hotel_response.verification_status = status
    /\ hotel_response.confidence_level = confidence

\* The whitespace-delimited tokens of a claimed name longer than 3
\* characters that some registry name contains, by position in the name.
TokenHits(claimed) ==
    { t \in 1..Len(Split(claimed)) :
        /\ Len(Split(claimed)[t]) > 3
        /\ \E i \in 1..Len(official_resorts_csv.names) :
              /\ official_resorts_csv.names[i] # NaN
              /\ ContainsCI(official_resorts_csv.names[i], Split(claimed)[t]) }

\* The registry rows that contain token t of a claimed name.
RowsHitBy(claimed, t) ==
    { i \in 1..Len(official_resorts_csv.names) :
        /\ official_resorts_csv.names[i] # NaN
        /\ ContainsCI(official_resorts_csv.names[i], Split(claimed)[t]) }

\* The last check met an available registry none of whose names is related
\* to the claimed name by containment.
NoExactSubstring ==
    /\ HotelChecked
    /\ RegistryAvailable
    /\ RelatedRows(hotel_request.hotel_name) = {}

\* C11: when the exact-substring tier finds nothing, the check is Uncertain /
\* Medium exactly when some token longer than 3 characters is contained,
\* without regard to case, in some registry name, and the note then cites
\* the first registry entry hit by the earliest such token.
C11_TokenTier ==
    NoExactSubstring
    => LET hits == TokenHits(hotel_request.hotel_name) IN
       /\ Answered("Uncertain", "Medium") <=> hits # {}
       /\ hits # {}
             => \E t \in hits : \E i \in RowsHitBy(hotel_request.hotel_name, t) :
                   /\ \A u \in hits : t <= u
                   /\ \A j \in RowsHitBy(hotel_request.hotel_name, t) : i <= j
                   /\ hotel_response.notes[2] = official_resorts_csv.names[i]

\* C12: with the registry available, a claimed name that neither tier
\* relates to any registry name is Fake / High with the not-found note.
C12_NoMatchIsFakeHigh ==
    (NoExactSubstring /\ TokenHits(hotel_request.hotel_name) = {})
    => /\ Answered("Fake", "High")
       /\ hotel_response.notes =
             <<"Not found in official resort database - potentially fraudulent", <<>>>>

\* The rows of the table whose claimed name is exactly the given one.
RowsNamed(table, claimed) ==
    { i \in 1..Len(table) : table[i].claimed_name = claimed }

\* C13: with the registry file missing, every claimed name is answered
\* Fake / Low with the cannot-verify note, also a name no tier could
\* process, and the request succeeds and writes the record of that name.
C13_RegistryUnavailable ==
    (HotelChecked /\ ~official_resorts_csv.exists)
    => /\ Answered("Fake", "Low")
       /\ hotel_response.notes =
             <<"Cannot verify - Official resort database not available", <<>>>>
       /\ \E i \in RowsNamed(fake_hotels, hotel_request.hotel_name) :
             /\ fake_hotels[i].id = hotel_response.hotel_id
             /\ fake_hotels[i].status = "Fake"
             /\ fake_hotels[i].notes = hotel_response.notes
             /\ fake_hotels[i].website_domain = hotel_request.website_domain

\* C13 witness: without a registry file a name with an unbalanced
\* parenthesis was checked after another name, and both have a record.
C13_Witness ==
    /\ HotelChecked
    /\ ~official_resorts_csv.exists
    /\ hotel_request.hotel_name = N_goa_old_open
    /\ Answered("Fake", "Low")
    /\ Len(fake_hotels) = 2
    /\ fake_hotels[2].claimed_name = N_goa_old_open

\* C14: a check that follows a successful check of the same claimed name,
\* the registry unchanged, succeeds with the same status and adds no row;
\* after every successful check the table holds exactly one row of the
\* claimed name.
C14_CheckIdempotent ==
    /\ [](hotel_response.status = "success"
            => Cardinality(RowsNamed(fake_hotels, hotel_request.hotel_name)) = 1)
    /\ [][ (/\ hotel_response.status = "success"
             /\ hotel_request'.hotel_name = hotel_request.hotel_name
             /\ official_resorts_csv' = official_resorts_csv)
            => /\ hotel_response'.status = "success"
               /\ hotel_response'.verification_status =
                     hotel_response.verification_status
               /\ hotel_response'.hotel_id = hotel_response.hotel_id
               /\ Len(fake_hotels') = Len(fake_hotels)
               /\ Cardinality(RowsNamed(fake_hotels', hotel_request.hotel_name)) = 1
          ]_vars

\* C14 witness: the last check overwrote the record of an earlier check of
\* the same name, which is not the newest row and now carries the domain of
\* the last request.
C14_Witness ==
    /\ hotel_response.status = "success"
    /\ Len(fake_hotels) = 2
    /\ hotel_response.hotel_id = 1
    /\ fake_hotels[1].claimed_name = hotel_request.hotel_name
    /\ fake_hotels[1].website_domain = hotel_request.website_domain
    /\ hotel_request.website_domain # None

\* C15: no two records carry claimed names that differ only in letter case.
C15_CaseInsensitiveKey ==
    \A i, j \in 1..Len(fake_hotels) :
        i < j => LowerStr(fake_hotels[i].claimed_name)
                    # LowerStr(fake_hotels[j].claimed_name)

\* C18: the recommended action and the urgency of a reply follow from its
\* status alone: Fake is report-immediately / High whatever the confidence,
\* Uncertain is manual-investigation / Medium, Official is no-action / None.
C18_ActionByStatus ==
    hotel_response.status = "success"
    => /\ hotel_response.verification_status = "Fake"
             => /\ hotel_response.recommended_action =
                      "Report to Tourism Department immediately"
                /\ hotel_response.urgency = "High"
       /\ hotel_response.verification_status = "Uncertain"
             => /\ hotel_response.recommended_action =
                      "Conduct manual investigation and cross-reference"
                /\ hotel_response.urgency = "Medium"
       /\ hotel_response.verification_status = "Official"
             => /\ hotel_response.recommended_action =
                      "No action required - legitimate business"
                /\ hotel_response.urgency = "None"
       /\ hotel_response.verification_status \in {"Fake", "Uncertain", "Official"}

\* C18 witness: a Fake reply of Low confidence, the registry file missing,
\* carries High urgency.
C18_Witness ==
    /\ Answered("Fake", "Low")
    /\ hotel_response.urgency = "High"
    /\ ~official_resorts_csv.exists

(***************************************************************************)
(* Properties of the two verification entry points together.               *)
(***************************************************************************)

\* C16: whatever sequence of /hotels/check and /flag/hotel requests was
\* served, no two records of the table carry the same claimed name.
C16_OneRecordPerName ==
    \A i \in 1..Len(fake_hotels) :
        RowsNamed(fake_hotels, fake_hotels[i].claimed_name) = {i}

(***************************************************************************)
(* Properties of overlapping checks.                                       *)
(***************************************************************************)

\* C17: once the overlapping checks have all replied, every claimed name
\* that was written has exactly one record.
C17_NoDuplicateUnderOverlap ==
    (\A w \in Workers : inflight[w].pc = "idle")
    => \A i \in 1..Len(fake_hotels) :
          Cardinality(RowsNamed(fake_hotels, fake_hotels[i].claimed_name)) = 1

(***************************************************************************)
(* Properties of the ingestion batches.                                    *)
(***************************************************************************)

\* The risk score check_keywords gives each text a scraper hands over.
RiskOf ==
    [text \in IngestTexts \cup {WebsiteError.message_text} |->
        check_keywords(text).risk_score]

\* The fetched records whose text scores above 0.
Scoring(fetched) ==
    { i \in 1..Len(fetched) : RiskOf[fetched[i].message_text] > 0 }

\* The step is a request to an ingestion endpoint that changed what the
\* model records of it.
IngestionStep == ingestVars' # ingestVars

\* C19: a Telegram batch that commits adds as many rows as it fetched
\* records scoring above 0, reports that number as flagged and the number
\* of fetched records as total; no row of the table has risk score 0.
C19_BatchCounts ==
    /\ [](\A i \in 1..Len(flagged_posts) : flagged_posts[i].risk_score > 0)
    /\ [](/\ ingest_response.status = "success"
           /\ "total_messages" \in DOMAIN ingest_response
           => /\ ingest_response.total_messages = Len(messages)
              /\ ingest_response.flagged_posts = Cardinality(Scoring(messages)))
    /\ [][ (/\ IngestionStep
             /\ ingest_response'.status = "success"
             /\ "total_messages" \in DOMAIN ingest_response')
            => /\ Len(flagged_posts') - Len(flagged_posts)
                     = Cardinality(Scoring(messages'))
               /\ SubSeq(flagged_posts', 1, Len(flagged_posts)) = flagged_posts
          ]_vars

\* C19 witness: a committed Telegram batch of two records, one of them
\* scoring above 0, added its one row to a table that already held one.
C19_Witness ==
    /\ ingest_response.status = "success"
    /\ "total_messages" \in DOMAIN ingest_response
    /\ ingest_response.total_messages = 2
    /\ ingest_response.flagged_posts = 1
    /\ Len(flagged_posts) = 2
    /\ flagged_posts[2].message_text \in { messages[i].message_text : i \in 1..2 }

\* C20: an ingestion request that fails replies with an error and leaves
\* the table as it was; one that succeeds adds all the rows it reports as
\* flagged, at the end of the table.
C20_BatchAllOrNothing ==
    /\ [](ingest_response.status \in {"none", "success", "error"})
    /\ [][ IngestionStep
            => \/ /\ ingest_response'.status = "error"
                  /\ flagged_posts' = flagged_posts
               \/ /\ ingest_response'.status = "success"
                  /\ Len(flagged_posts') - Len(flagged_posts)
                        = ingest_response'.flagged_posts
                  /\ SubSeq(flagged_posts', 1, Len(flagged_posts)) = flagged_posts
          ]_vars

\* C20 witness: a batch holding a record that scores above 0 failed, and
\* the table is still empty.
C20_Witness ==
    /\ ingest_response.status = "error"
    /\ Scoring(messages) # {}
    /\ flagged_posts = <<>>

(***************************************************************************)
(* Properties of the fetch failures.                                       *)
(***************************************************************************)
\* The number of records put into the list by the units i.. whose fetch
\* failed, or did not fail.
RECURSIVE CountFrom(_, _, _)
CountFrom(units, i, failed) ==
    IF i > Len(units) THEN 0
    ELSE (IF units[i].failed = failed THEN Len(units[i].got) ELSE 0)
         + CountFrom(units, i + 1, failed)

\* The number of fetched records that came from units that did not fail.
FetchedFromHealthy(units) == CountFrom(units, 1, FALSE)

\* The total a summary reports.
SummaryTotal(response) ==
    IF "total_messages" \in DOMAIN response
    THEN response.total_messages
    ELSE response.total_websites

\* C21: a unit whose fetch failed does not fail the request, and the
\* summary of the batch counts the records of the other units only.
C21_FetchFailureIsolated ==
    ingest_response.status = "success"
    => SummaryTotal(ingest_response) = FetchedFromHealthy(source_units)

(***************************************************************************)
(* Properties of the settings operations.                                  *)
(***************************************************************************)

\* The request does not pass the validation the settings endpoints
\* document, given the settings it meets.
FailsValidation(request, keyword_settings, platform_settings) ==
    \/ /\ request.operation \in {"update", "add_category"}
       /\ \/ Len(request.body.keywords) = 0
          \/ request.body.risk_weight \notin 0..100
          \/ /\ request.operation = "add_category"
             /\ request.body.category \in DOMAIN keyword_settings
    \/ /\ request.operation = "update_platform"
       /\ \/ request.body.platform \notin DOMAIN platform_settings
          \/ request.body.risk_threshold \notin 0..100

\* C25: a keyword update, a category addition or a platform update that
\* fails validation is answered with an error and leaves KEYWORD_SETTINGS
\* and PLATFORM_SETTINGS as they were.
C25_RejectedUpdateChangesNothing ==
    [][ (/\ settingsVars' # settingsVars
         /\ FailsValidation(settings_request', KEYWORD_SETTINGS, PLATFORM_SETTINGS))
        => /\ settings_response'.status = "error"
           /\ KEYWORD_SETTINGS' = KEYWORD_SETTINGS
           /\ PLATFORM_SETTINGS' = PLATFORM_SETTINGS
      ]_vars

\* C25 witness: a platform update with threshold 101 was rejected after a
\* keyword update and a platform update had been applied, and both are
\* still in place.
C25_Witness ==
    /\ settings_request # NoResponse
    /\ settings_request.operation = "update_platform"
    /\ settings_request.body.platform = "telegram"
    /\ settings_request.body.risk_threshold = 101
    /\ settings_response.status = "error"
    /\ PLATFORM_SETTINGS.telegram.risk_threshold = 60
    /\ KEYWORD_SETTINGS.scam.keywords = <<W_otp>>

\* C29: every category of KEYWORD_SETTINGS has a non-empty keyword list
\* and a risk weight within 0..100, and every platform of PLATFORM_SETTINGS
\* has a risk threshold within 0..100.
C29_SettingsWellFormed ==
    /\ \A c \in DOMAIN KEYWORD_SETTINGS :
          /\ Len(KEYWORD_SETTINGS[c].keywords) > 0
          /\ KEYWORD_SETTINGS[c].risk_weight \in 0..100
    /\ \A p \in DOMAIN PLATFORM_SETTINGS :
          PLATFORM_SETTINGS[p].risk_threshold \in 0..100

\* The four core categories, as the claim lists them.
CoreFour == {"scam", "gambling", "prostitution", "fake_hotel"}

\* C30: the four core categories are always present; a request to delete
\* one of them is answered with an error and changes no setting, and the
\* only step that removes a category is a successful deletion of a
\* category that is not core.
C30_CoreCategoriesRemain ==
    /\ [](CoreFour \subseteq DOMAIN KEYWORD_SETTINGS)
    /\ [][ /\ (/\ settingsVars' # settingsVars
                /\ settings_request'.operation = "delete_category"
                /\ settings_request'.body \in CoreFour)
               => /\ settings_response'.status = "error"
                  /\ KEYWORD_SETTINGS' = KEYWORD_SETTINGS
                  /\ PLATFORM_SETTINGS' = PLATFORM_SETTINGS
            /\ \/ DOMAIN KEYWORD_SETTINGS \subseteq DOMAIN KEYWORD_SETTINGS'
               \/ /\ settings_request'.operation = "delete_category"
                  /\ settings_request'.body \notin CoreFour
                  /\ settings_response'.status = "success"
                  /\ DOMAIN KEYWORD_SETTINGS' =
                        DOMAIN KEYWORD_SETTINGS \ {settings_request'.body}
          ]_vars

\* C30 witness: after an import had overwritten the scam category, the
\* deletion of scam was refused and the four categories are still there.
C30_Witness ==
    /\ settings_request # NoResponse
    /\ settings_request.operation = "delete_category"
    /\ settings_request.body = "scam"
    /\ settings_response.status = "error"
    /\ settings_response.status_code = 400
    /\ KEYWORD_SETTINGS.scam.risk_weight = 500
    /\ DOMAIN KEYWORD_SETTINGS = CoreFour

(***************************************************************************)
(* Properties of the table of flagged posts over the batches.              *)
(***************************************************************************)

\* The positions of the records with the given text that a handler scores.
ScoredWithText(fetched, text) ==
    { i \in 1..Len(fetched) :
        /\ fetched[i].message_text = text
        /\ "status" \in DOMAIN fetched[i] => fetched[i].status = "success" }

\* The positions of the rows with the given text.
RowsWithText(table, text) ==
    { i \in 1..Len(table) : table[i].message_text = text }

\* C22: every ingestion leaves the rows written earlier as they are, at
\* the head of the table, and a batch that commits adds one row for every
\* scored record of a flagged text, however many rows or records of that
\* text there already are.
C22_AppendOnlyNoDedup ==
    [][ IngestionStep
        => /\ Len(flagged_posts') >= Len(flagged_posts)
           /\ SubSeq(flagged_posts', 1, Len(flagged_posts)) = flagged_posts
           /\ ingest_response'.status = "success"
                 => \A text \in DOMAIN RiskOf :
                       RiskOf[text] > 0
                       => Cardinality(RowsWithText(flagged_posts', text))
                             - Cardinality(RowsWithText(flagged_posts, text))
                          = Cardinality(ScoredWithText(messages', text))
      ]_vars

\* C22 witness: a committed batch held the same flagged record twice, and
\* the table holds that record three times, once from an earlier batch.
C22_Witness ==
    /\ ingest_response.status = "success"
    /\ Len(messages) = 2
    /\ messages[1] = messages[2]
    /\ Len(flagged_posts) = 3
    /\ flagged_posts[1] = flagged_posts[2]
    /\ flagged_posts[2] = flagged_posts[3]
    /\ flagged_posts[3].message_text = messages[2].message_text

(***************************************************************************)
(* Properties of the record a check writes and of the verdict it returns.  *)
(***************************************************************************)

\* The step is a request to /hotels/check that changed what the model
\* records of it.
CheckStep ==
    <<hotel_request, hotel_response, fake_hotels>>'
        # <<hotel_request, hotel_response, fake_hotels>>

\* C27: a successful check of a name that has a record gives that record,
\* and no other, the status and notes of the reply and the website domain
\* of the request, None included, keeps its id and claimed name and
\* returns that id; a successful check of a name without a record appends
\* one record of that name and changes no other.
C27_UpsertFrame ==
    [][ (CheckStep /\ hotel_response'.status = "success")
        => LET name == hotel_request'.hotel_name
               old == RowsNamed(fake_hotels, name)
               Written(row) ==
                   /\ row.claimed_name = name
                   /\ row.id = hotel_response'.hotel_id
                   /\ row.status = hotel_response'.verification_status
                   /\ row.notes = hotel_response'.notes
                   /\ row.website_domain = hotel_request'.website_domain
           IN  IF old # {}
               THEN /\ Len(fake_hotels') = Len(fake_hotels)
                    /\ \E i \in old :
                          /\ Written(fake_hotels'[i])
                          /\ fake_hotels'[i].id = fake_hotels[i].id
                          /\ \A j \in 1..Len(fake_hotels) :
                                j # i => fake_hotels'[j] = fake_hotels[j]
               ELSE /\ Len(fake_hotels') = Len(fake_hotels) + 1
                    /\ SubSeq(fake_hotels', 1, Len(fake_hotels)) = fake_hotels
                    /\ Written(fake_hotels'[Len(fake_hotels')])
      ]_vars

\* C27 witness: the last check, its request carrying no domain, was
\* answered with the id of the older of two records, which now has no
\* domain, while the newer record has one.
C27_Witness ==
    /\ hotel_response.status = "success"
    /\ Len(fake_hotels) = 2
    /\ hotel_response.hotel_id = 1
    /\ hotel_request.website_domain = None
    /\ fake_hotels[1].website_domain = None
    /\ fake_hotels[2].website_domain # None

\* C28: a reply carries one of the pairs Official / High, Uncertain /
\* Medium, Fake / High, Fake / Low; Low is the confidence exactly of the
\* replies given without a registry file, and those are all Fake.
C28_FourVerdicts ==
    hotel_response.status = "success"
    => /\ <<hotel_response.verification_status, hotel_response.confidence_level>>
             \in { <<"Official", "High">>, <<"Uncertain", "Medium">>,
                   <<"Fake", "High">>, <<"Fake", "Low">> }
       /\ hotel_response.confidence_level = "Low" <=> ~official_resorts_csv.exists
       /\ ~official_resorts_csv.exists
             => hotel_response.verification_status = "Fake"

\* C28 witness: with a registry, an Uncertain / Medium reply followed
\* checks that left an Official and an Uncertain record.
C28_Witness ==
    /\ Answered("Uncertain", "Medium")
    /\ official_resorts_csv.exists
    /\ \E i, j \in 1..Len(fake_hotels) :
          /\ fake_hotels[i].status = "Official"
          /\ fake_hotels[j].status = "Uncertain"

(***************************************************************************)
(* Properties of the registry upload.                                      *)
(***************************************************************************)
\* A step of the upload handler as a whole.
UploadStep ==
    <<upload_request, upload_response, official_resorts_csv, backups>>'
        # <<upload_request, upload_response, official_resorts_csv, backups>>

\* An uploaded file the handler has no ground to refuse.
WellFormedUpload(file) ==
    /\ EndsWith(file.filename, CsvSuffix)
    /\ "readable" \notin DOMAIN file.content
    /\ file.content.has_name

\* C23: an upload of a well-formed file over an existing registry leaves
\* the new dataset as the registry and adds one backup that equals the
\* registry as it was before.
C23_BackupBeforeReplace ==
    [][ (UploadStep /\ official_resorts_csv.exists
           /\ WellFormedUpload(upload_request'))
        => /\ official_resorts_csv' = upload_request'.content
           /\ backups' = backups \cup {official_resorts_csv} ]_vars

\* The reply of a check is the one the registry csv gives to the name.
ReplyFrom(response, csv, name) ==
    LET verdict == VerdictOf[csv][name]
    IN  IF verdict.raised
        THEN response.status # "success"
        ELSE /\ response.status = "success"
             /\ response.verification_status = verdict.status
             /\ response.confidence_level = verdict.confidence

\* C24: a check answered while an upload is writing the registry file
\* replies as the registry before the upload or as the uploaded registry
\* would.
C24_SwapAtomicForReaders ==
    [][ (CheckStep /\ upload_inflight.pc = "writing")
        => LET name == hotel_request'.hotel_name
           IN  \/ ReplyFrom(hotel_response', upload_inflight.previous, name)
               \/ ReplyFrom(hotel_response', upload_inflight.file.content, name) ]_vars

\* C26: an upload refused for its file name, for a file that cannot be
\* parsed or for a missing name column leaves every claimed name with the
\* verdict it had before.
C26_RejectedUploadKeepsRegistry ==
    [][ (UploadStep /\ ~WellFormedUpload(upload_request')
           /\ upload_response'.status_code = 400)
        => \A name \in HotelNames :
              VerdictOf[official_resorts_csv'][name]
                  = VerdictOf[official_resorts_csv][name] ]_vars

====
